---- MODULE Spec2Model ----
(***************************************************************************)
(* cleanowners: the CODEOWNERS reconciliation pipeline of cleanowners.py.  *)
(*                                                                         *)
(* Text (CODEOWNERS content, lines, handles) is a sequence of one-byte     *)
(* strings.  The handle extractor, the literal rewriter and the locator    *)
(* are operators computed the way the Python computes them; main() is a    *)
(* state machine with one action per stage of its repository loop.         *)
(*                                                                         *)
(*   Spec         main(): the whole run over the iterated repositories     *)
(*   SpecText     get_usernames_from_codeowners and the rewriter on        *)
(*                generated contents                                       *)
(*   SpecLocator  get_codeowners_file, one probe at a time                 *)
(***************************************************************************)
EXTENDS Integers, Sequences, FiniteSets, TLC

None == "None"

\* None where bytes (or a list) are expected: no byte string, since every
\* element of a byte string is a single byte
NoBytes == <<None>>

\* None where a repository, a commit or a branch is expected
NoRepo == [id |-> 0, exempt |-> FALSE, archived |-> FALSE]
NoCommit == [branch |-> None, commit |-> 0]
NoBranch == [name |-> None, uuid |-> 0]
NoPull == [head |-> NoBranch, base |-> NoBranch]

----------------------------------------------------------------------------
(* Bytes and byte strings *)

AT == "@"
SP == " "
NL == "\n"
HASH == "#"
SLASH == "/"

\* the bytes str.split(), str.strip() and str.lstrip() treat as whitespace
Whitespace == {SP, NL}

\* s.find(c) + 1: the first index of byte c in s, 0 when absent
IndexOf(s, c) ==
    IF \E i \in 1..Len(s) : s[i] = c
    THEN CHOOSE i \in 1..Len(s) : s[i] = c /\ \A j \in 1..(i - 1) : s[j] # c
    ELSE 0

\* c in s
Contains(s, c) == \E i \in 1..Len(s) : s[i] = c

\* s[i:] (1-based, inclusive)
From(s, i) == SubSeq(s, i, Len(s))

\* s.startswith(p)
StartsWith(s, p) == Len(s) >= Len(p) /\ SubSeq(s, 1, Len(p)) = p

\* content.splitlines(): no empty last line after a final line break
RECURSIVE SplitLines(_)
SplitLines(s) ==
    IF s = <<>> THEN <<>>
    ELSE LET i == IndexOf(s, NL)
         IN  IF i = 0 THEN <<s>>
             ELSE <<SubSeq(s, 1, i - 1)>> \o SplitLines(From(s, i + 1))

\* s.split(c): always at least one piece
RECURSIVE SplitOn(_, _)
SplitOn(s, c) ==
    LET i == IndexOf(s, c)
    IN  IF i = 0 THEN <<s>>
        ELSE <<SubSeq(s, 1, i - 1)>> \o SplitOn(From(s, i + 1), c)

\* s.lstrip()
RECURSIVE LStrip(_)
LStrip(s) ==
    IF s # <<>> /\ Head(s) \in Whitespace THEN LStrip(Tail(s)) ELSE s

\* s.strip() is empty
IsBlank(s) == \A i \in 1..Len(s) : s[i] \in Whitespace

\* the leading run of non-whitespace bytes of s
RECURSIVE TakeWord(_)
TakeWord(s) ==
    IF s = <<>> \/ Head(s) \in Whitespace THEN <<>>
    ELSE <<Head(s)>> \o TakeWord(Tail(s))

\* s.split()[0]; Python raises IndexError when s.split() is empty (IsBlank(s))
FirstWord(s) == TakeWord(LStrip(s))

\* data.replace(old, b""): every non-overlapping occurrence, left to right, one pass
RECURSIVE Replace(_, _)
Replace(s, old) ==
    IF Len(s) < Len(old) THEN s
    ELSE IF SubSeq(s, 1, Len(old)) = old
         THEN Replace(From(s, Len(old) + 1), old)
         ELSE <<Head(s)>> \o Replace(Tail(s), old)

RECURSIVE Flatten(_)
Flatten(ss) == IF ss = <<>> THEN <<>> ELSE Head(ss) \o Flatten(Tail(ss))

MapSeq(s, Op(_)) == [i \in 1..Len(s) |-> Op(s[i])]

----------------------------------------------------------------------------
(* Handle Extractor: get_usernames_from_codeowners, lines 279-293          *)

\* line 282: a comment line or a blank line is skipped
IsSkipped_NoLStrip(line) == StartsWith(line, <<HASH>>) \/ IsBlank(line)
IsSkipped(line) == StartsWith(LStrip(line), <<HASH>>) \/ IsBlank(line)

\* line 285: handles = line.split("@")[1:]  (no "@" in the line: no handles)
LineHandles(line) == Tail(SplitOn(line, AT))

\* a handle that contains "/" is a team
IsTeam(handle) == Contains(handle, SLASH)

\* lines 288-291: which handles are appended
KeepHandle_TeamsAlways(handle, ignore_teams) == TRUE
KeepHandle(handle, ignore_teams) ==
    IF ignore_teams THEN ~IsTeam(handle) ELSE TRUE

\* line 287 raises IndexError for a handle with no word in it
LineRaises(line) ==
    /\ ~IsSkipped(line)
    /\ \E i \in 1..Len(LineHandles(line)) : IsBlank(LineHandles(line)[i])

\* lines 284-291 for one line that does not raise
LineUsernames(line, ignore_teams) ==
    IF IsSkipped(line) THEN <<>>
    ELSE SelectSeq(MapSeq(LineHandles(line), FirstWord),
                   LAMBDA h : KeepHandle(h, ignore_teams))

\* lines 279-293 on decoded bytes: raised = an IndexError left the function
GetUsernamesFromBytes(content, ignore_teams) ==
    LET lines == SplitLines(content)
    IN  IF \E i \in 1..Len(lines) : LineRaises(lines[i])
        THEN [raised |-> TRUE, usernames |-> <<>>]
        ELSE [raised |-> FALSE,
              usernames |-> Flatten([i \in 1..Len(lines) |->
                                        LineUsernames(lines[i], ignore_teams)])]

----------------------------------------------------------------------------
(* Rewriter: main, lines 128-131 *)

\* line 128: f"@{username}".encode("ASCII")
BytesUsername(username) == <<AT>> \o username

\* lines 129-131: codeowners_file_contents.decoded.replace(bytes_username, b"")
RemoveUsername(decoded, username) == Replace(decoded, BytesUsername(username))

----------------------------------------------------------------------------
(* Locator: get_codeowners_file, lines 180-214 *)

\* the candidate paths, in probing order
CandidatePaths == <<".github/CODEOWNERS", "CODEOWNERS", "docs/CODEOWNERS">>

PathSet == {CandidatePaths[i] : i \in 1..Len(CandidatePaths)}

\* what repo.file_contents(path) does: raises NotFoundError, returns None,
\* or returns a Contents object of some size
FileStates ==
    {[kind |-> "notfound", size |-> 0], [kind |-> "none", size |-> 0],
     [kind |-> "contents", size |-> 0], [kind |-> "contents", size |-> 1]}

RepoFiles == [PathSet -> FileStates]

NoFile == [contents |-> None, filepath |-> None]

\* one try block (lines 187-195, 196-204, 205-213): the candidate replaces the
\* current result when file_contents(path) is truthy and its size is > 0
ProbeCandidate_NotFoundClears(files, path, cur) ==
    IF files[path].kind = "notfound" THEN NoFile
    ELSE IF files[path].kind = "contents" /\ files[path].size > 0
         THEN [contents |-> path, filepath |-> path]
         ELSE cur
ProbeCandidate_FirstWins(files, path, cur) ==
    IF cur = NoFile /\ files[path].kind = "contents" /\ files[path].size > 0
    THEN [contents |-> path, filepath |-> path]
    ELSE cur
ProbeCandidate(files, path, cur) ==
    IF files[path].kind = "contents" /\ files[path].size > 0
    THEN [contents |-> path, filepath |-> path]
    ELSE cur

\* lines 185-214: the three probes in order; the Contents object returned is
\* named by the path it was fetched from
GetCodeownersFile(files) ==
    ProbeCandidate(files, CandidatePaths[3],
        ProbeCandidate(files, CandidatePaths[2],
            ProbeCandidate(files, CandidatePaths[1], NoFile)))

----------------------------------------------------------------------------
(* print_stats, lines 217-236 *)

\* n / d rounded to the nearest integer, a tie to the even one, as round() does
RoundHalfEven(n, d) ==
    LET q == n \div d
        r == n % d
    IN  IF 2 * r > d \/ (2 * r = d /\ q % 2 = 1) THEN q + 1 ELSE q

\* lines 229, 235: round((n / d) * 100, 2), in hundredths of a percent
Percent(n, d) == RoundHalfEven(n * 10000, d)

\* how an f-string prints that float: the integer part, then the decimals
\* without trailing zeros, one decimal at least (50.0, 33.33, 12.5)
FloatRepr(h) ==
    [int |-> h \div 100,
     decimals |-> IF h % 10 = 0 THEN <<(h % 100) \div 10>>
                  ELSE <<(h % 100) \div 10, h % 10>>]

\* a line without a percentage in it
NoPercent == [int |-> 0 - 1, decimals |-> <<>>]

\* line 225
NoPullsNeeded_Never(eligble) == FALSE
NoPullsNeeded(eligble) == eligble = 0

\* line 231
NoneProcessed(with_file, without_file) == with_file + without_file = 0

\* lines 225-230
EligibleLine(pulls, eligble) ==
    IF NoPullsNeeded(eligble)
    THEN [text |-> "No pull requests were needed", percent |-> NoPercent]
    ELSE [text |-> "% of eligible repositories had pull requests created",
          percent |-> FloatRepr(Percent(pulls, eligble))]

\* lines 231-236
CodeownersLine(with_file, without_file) ==
    IF NoneProcessed(with_file, without_file)
    THEN [text |-> "No repositories were processed", percent |-> NoPercent]
    ELSE [text |-> "% of repositories had CODEOWNERS files",
          percent |-> FloatRepr(Percent(with_file, with_file + without_file))]

\* lines 221-236: the six lines printed; raised = a ZeroDivisionError left
\* the function before its last line
PrintStats(pulls, eligble, without_file, with_file, users) ==
    IF \/ ~NoPullsNeeded(eligble) /\ eligble = 0
       \/ ~NoneProcessed(with_file, without_file) /\ with_file + without_file = 0
    THEN [raised |-> TRUE, found |-> users, created |-> pulls,
          skipped |-> without_file, with_codeowners |-> with_file,
          eligible |-> NoPercent, codeowners |-> NoPercent]
    ELSE [raised |-> FALSE, found |-> users, created |-> pulls,
          skipped |-> without_file, with_codeowners |-> with_file,
          eligible |-> EligibleLine(pulls, eligble),
          codeowners |-> CodeownersLine(with_file, without_file)]

----------------------------------------------------------------------------
(* main(): configuration, repositories and run state *)

\* an upper bound on the repositories the iterator yields
MaxRepos == 2

\* organizations: the configured one and another repository owner
Orgs == {"acme", "other"}

\* the handles the CODEOWNERS files of the run mention: two users, one a
\* prefix of the other, and a team of an organization named like a user
RepoHandles == {<<"a">>, <<"a", "b">>, <<"a", SLASH, "b">>}

\* a rule line "* @h1 @h2 ..."
Rule(handles) ==
    <<"*">> \o Flatten([i \in 1..Len(handles) |-> <<SP, AT>> \o handles[i]])

\* the decoded CODEOWNERS contents the repositories may hold: one rule with
\* one or two owners, one with three (a user named twice), a rule without
\* owners and a rule whose "@" has no handle
RepoContents ==
    {Rule(<<h>>) : h \in RepoHandles}
    \cup {Rule(<<h1, h2>>) : h1 \in RepoHandles, h2 \in RepoHandles}
    \cup {Rule(<<<<"a">>, <<"a", "b">>, <<"a">>>>)}
    \cup {Rule(<<>>), <<"*", SP, AT>>}

\* the contents the large files of the run hold: one rule, with one owner or
\* with both users
BlobContents ==
    {Rule(<<h>>) : h \in RepoHandles} \cup {Rule(<<<<"a">>, <<"a", "b">>>>)}

\* what get_codeowners_file can return, over every state of the three paths
LocatorResults == {GetCodeownersFile(files) : files \in RepoFiles}

\* the usernames main() extracts from each of these contents (line 103)
ExtractedFrom == [c \in RepoContents |-> GetUsernamesFromBytes(c, TRUE)]

VARIABLES
    organization,      \* ORGANIZATION, or None
    repository_list,   \* TRUE when REPOSITORY names a non-empty list
    dry_run,           \* DRY_RUN
    pc,                \* where main() is
    repo,              \* the repository of the current iteration
    pull_count, eligble_for_pr_count, no_codeowners_count, codeowners_count,
    users_count,
    repo_and_users_to_remove,   \* dict: repository -> usernames_to_remove
    repos_missing_codeowners,   \* list of repositories
    file_changed, codeowners_filepath,
    codeowners_file_contents,   \* what kind of object line 103 is given
    decoded,           \* codeowners_file_contents.decoded
    usernames, k,      \* the extracted usernames and the handle loop's index
    usernames_to_remove, codeowners_file_contents_new,
    default_branch_commit, branch_name,   \* locals of commit_changes
    pull,              \* the pull request commit_changes returned
    verdicts,          \* the is_member queries of this iteration and their answers
    calls,             \* the repository API calls of this iteration that write
    fetches,           \* the files and blobs main() asked for in this iteration
    outcome,           \* how the current iteration ended
    before,            \* the counters as the current iteration began
    iterated,          \* number of repositories the iterator has yielded
    stats,             \* what print_stats was given, once it is called
    gh_org,            \* what get_org answered last (lines 58, 113)
    processed,         \* the iterations that ended: repository and outcome
    printed,           \* what print_stats printed, once it is called
    \* SpecText: one content through extraction, rewriting and re-extraction
    t_pc, t_content, t_ignore_teams, t_raised, t_usernames, t_username, t_new,
    t_new_raised, t_new_usernames,
    \* SpecDecode: how the content is represented, the repo and open_issue_func
    \* arguments, and the calls open_issue_func received
    t_repr, t_repo, t_open_issue_func, t_issues,
    \* SpecLocator: the files of one repository, the index of the next probe
    \* and get_codeowners_file's result so far
    l_files, l_next, l_result

config == <<organization, repository_list, dry_run>>
counters ==
    <<pull_count, eligble_for_pr_count, no_codeowners_count, codeowners_count,
      users_count>>
accumulators == <<repo_and_users_to_remove, repos_missing_codeowners>>
locals ==
    <<file_changed, codeowners_filepath, codeowners_file_contents, decoded,
      usernames, k, usernames_to_remove, codeowners_file_contents_new,
      default_branch_commit, branch_name, pull>>
history == <<verdicts, calls, fetches, outcome, before>>
runvars == <<config, pc, repo, counters, accumulators, locals, history,
             iterated, stats, gh_org, processed, printed>>
reprvars == <<t_repr, t_repo, t_open_issue_func, t_issues>>
textvars == <<t_pc, t_content, t_ignore_teams, t_raised, t_usernames,
              t_username, t_new, t_new_raised, t_new_usernames, reprvars>>
locvars == <<l_files, l_next, l_result>>
vars == <<runvars, textvars, locvars>>

Counters ==
    [pull_count |-> pull_count, eligble_for_pr_count |-> eligble_for_pr_count,
     no_codeowners_count |-> no_codeowners_count,
     codeowners_count |-> codeowners_count, users_count |-> users_count]

\* the repositories of the run: with a repository list the owners alternate,
\* otherwise every repository belongs to the configured organization
RepoOwner(n) ==
    IF repository_list THEN (IF n % 2 = 1 THEN "other" ELSE "acme")
    ELSE organization
RepoDefaultBranch(n) ==
    [name |-> IF n % 2 = 1 THEN "main" ELSE "trunk", uuid |-> 0]
RepoHeadSha(n) == [branch |-> RepoDefaultBranch(n).name, commit |-> n]

\* uuid.uuid4(): fresh for every call; one call at most per repository
Uuid4(n) == n

\* get_usernames_from_codeowners is given decoded bytes, no repo, no callback
ReprIdle ==
    /\ t_repr = "bytes" /\ t_repo = FALSE /\ t_open_issue_func = None
    /\ t_issues = <<>>

TextIdle ==
    /\ t_pc = "idle" /\ t_content = NoBytes /\ t_ignore_teams = TRUE
    /\ t_raised = FALSE /\ t_usernames = <<>> /\ t_username = NoBytes
    /\ t_new = NoBytes /\ t_new_raised = FALSE /\ t_new_usernames = <<>>
    /\ ReprIdle

LocatorIdle ==
    /\ l_files = [p \in PathSet |-> [kind |-> "none", size |-> 0]]
    /\ l_next = 0 /\ l_result = NoFile

\* lines 85, 109-110 and the locals of one iteration before they are assigned
LocalsCleared ==
    /\ file_changed = FALSE /\ codeowners_filepath = None
    /\ codeowners_file_contents = None /\ decoded = NoBytes
    /\ usernames = <<>> /\ k = 0 /\ usernames_to_remove = <<>>
    /\ codeowners_file_contents_new = NoBytes
    /\ default_branch_commit = NoCommit /\ branch_name = NoBranch
    /\ pull = NoPull

\* the same values, as the next turn of the loop starts
ClearLocals ==
    /\ file_changed' = FALSE /\ codeowners_filepath' = None
    /\ codeowners_file_contents' = None
    /\ decoded' = NoBytes /\ usernames' = <<>> /\ k' = 0
    /\ usernames_to_remove' = <<>> /\ codeowners_file_contents_new' = NoBytes
    /\ default_branch_commit' = NoCommit /\ branch_name' = NoBranch
    /\ pull' = NoPull

\* main() before its first statement, but for the configuration and pc
RunCleared ==
    /\ repo = NoRepo
    /\ pull_count = 0 /\ eligble_for_pr_count = 0 /\ no_codeowners_count = 0
    /\ codeowners_count = 0 /\ users_count = 0
    /\ repo_and_users_to_remove = <<>> /\ repos_missing_codeowners = <<>>
    /\ LocalsCleared
    /\ verdicts = <<>> /\ calls = <<>> /\ fetches = <<>> /\ outcome = None
    /\ before = Counters
    /\ iterated = 0 /\ stats = <<>>
    /\ gh_org = None /\ processed = <<>> /\ printed = <<>>

\* main() is not running
RunIdle ==
    /\ organization = None /\ repository_list = TRUE /\ dry_run = TRUE
    /\ pc = "idle"
    /\ RunCleared

\* lines 20-55, 71-72
Init ==
    /\ organization \in {None, "acme"}
    /\ repository_list \in BOOLEAN
    /\ organization # None \/ repository_list
    /\ dry_run \in BOOLEAN
    /\ pc = "start"
    /\ RunCleared
    /\ TextIdle /\ LocatorIdle

----------------------------------------------------------------------------
(* main(): the actions *)

\* get_org, lines 11-17: the organization object, or None on NotFoundError
GetOrg(org, found) == IF found THEN org ELSE None

\* line 112: org = organization if organization else repo.owner.login
RelevantOrg_OwnerAlways(id) == RepoOwner(id)
RelevantOrg(id) == IF organization # None THEN organization ELSE RepoOwner(id)

\* gh_org.is_member(username): the directory answers the same for the same
\* (organization, username) throughout one iteration
IsMemberAnswers(org, username) ==
    LET asked == {i \in 1..Len(verdicts) :
                     verdicts[i].org = org /\ verdicts[i].username = username}
    IN  IF asked = {} THEN BOOLEAN ELSE {verdicts[i].member : i \in asked}

\* line 125: the file is rewritten unless this is a dry run
ShouldRewrite_Always(dry) == TRUE
ShouldRewrite(dry) == ~dry

\* lines 59-66: ValueError unless the organization resolved
StartupPc_Continue(org) == "loop"
StartupPc(org) == IF org = None THEN "fatal" ELSE "loop"

\* lines 57-66: with an organization and no repository list the organization
\* must resolve, else ValueError; line 69 then lists the repositories
Startup ==
    /\ pc = "start"
    /\ IF organization # None /\ ~repository_list
       THEN \E found \in BOOLEAN :
               /\ gh_org' = GetOrg(organization, found)
               /\ pc' = StartupPc(gh_org')
       ELSE pc' = "loop" /\ UNCHANGED gh_org
    /\ UNCHANGED <<config, processed, printed,
                   repo, counters, accumulators, locals, history,
                   iterated, stats, textvars, locvars>>

\* a request for a file or a blob of the repository
Fetch(op, path) == [op |-> op, path |-> path]

\* line 86: get_codeowners_file asks for every candidate path, in order,
\* whatever the earlier ones answered (lines 187-213)
Probes ==
    [i \in 1..Len(CandidatePaths) |-> Fetch("file_contents", CandidatePaths[i])]

\* lines 96-100: content is None; the file is asked for again for its sha and
\* the blob of that sha is fetched
BlobFetches(path) == <<Fetch("file_contents", path), Fetch("blob", path)>>

\* lines 98-100: what Blob.decode_content() hands back is the library's
\* choice: text or bytes
BlobRepresentations == {"text", "bytes"}

\* lines 258-264: an object with .decoded or bytes is split into lines; on
\* anything else .decode() is called, which text does not have
ExtractorDecodes(contents) == contents \in {"contents", "bytes"}

\* line 130: codeowners_file_contents.decoded, which only a Contents has
HasDecoded(contents) == contents = "contents"

\* lines 73-77: the next repository is in exempt_repositories_list
SkipExempt_Probed ==
    /\ pc = "loop" /\ iterated < MaxRepos
    /\ \E archived \in BOOLEAN :
          repo' = [id |-> iterated + 1, exempt |-> TRUE, archived |-> archived]
    /\ iterated' = iterated + 1
    /\ fetches' = Probes
    /\ pc' = "iter_end" /\ outcome' = "exempt"
    /\ UNCHANGED <<config, gh_org, processed, printed,
                   counters, accumulators, locals, verdicts, calls,
                   before, stats, textvars, locvars>>
SkipExempt ==
    /\ pc = "loop" /\ iterated < MaxRepos
    /\ \E archived \in BOOLEAN :
          repo' = [id |-> iterated + 1, exempt |-> TRUE, archived |-> archived]
    /\ iterated' = iterated + 1
    /\ pc' = "iter_end" /\ outcome' = "exempt"
    /\ UNCHANGED <<config, gh_org, processed, printed,
                   counters, accumulators, locals, verdicts, calls,
                   before, fetches, stats, textvars, locvars>>

\* lines 73-82: the next repository is not exempt and is archived
SkipArchived_Counted ==
    /\ pc = "loop" /\ iterated < MaxRepos
    /\ repo' = [id |-> iterated + 1, exempt |-> FALSE, archived |-> TRUE]
    /\ iterated' = iterated + 1
    /\ no_codeowners_count' = no_codeowners_count + 1
    /\ pc' = "iter_end" /\ outcome' = "archived"
    /\ UNCHANGED <<config, gh_org, processed, printed, pull_count,
                   eligble_for_pr_count, codeowners_count, users_count,
                   accumulators, locals, verdicts, calls, before, fetches,
                   stats, textvars, locvars>>
SkipArchived ==
    /\ pc = "loop" /\ iterated < MaxRepos
    /\ repo' = [id |-> iterated + 1, exempt |-> FALSE, archived |-> TRUE]
    /\ iterated' = iterated + 1
    /\ pc' = "iter_end" /\ outcome' = "archived"
    /\ UNCHANGED <<config, gh_org, processed, printed,
                   counters, accumulators, locals, verdicts, calls,
                   before, fetches, stats, textvars, locvars>>

\* lines 73-92: no candidate path holds a non-empty CODEOWNERS file
NoCodeowners ==
    /\ pc = "loop" /\ iterated < MaxRepos
    /\ \E found \in LocatorResults : found.contents = None
    /\ repo' = [id |-> iterated + 1, exempt |-> FALSE, archived |-> FALSE]
    /\ iterated' = iterated + 1
    /\ no_codeowners_count' = no_codeowners_count + 1
    /\ repos_missing_codeowners' = Append(repos_missing_codeowners, iterated + 1)
    /\ fetches' = Probes
    /\ pc' = "iter_end" /\ outcome' = "no_codeowners"
    /\ UNCHANGED <<config, gh_org, processed, printed,
                   pull_count, eligble_for_pr_count, codeowners_count,
                   users_count, repo_and_users_to_remove, locals, verdicts,
                   calls, before, stats, textvars, locvars>>

\* lines 73-110: a CODEOWNERS file is found and its usernames are extracted.
\* A large file (content is None) is fetched as a blob.  Text makes the
\* extractor's decode() raise, and its handler calls
\* repo.create_issue(repo, title=..., body=...), a TypeError (two values for
\* title) that leaves main() before any request is sent.  An IndexError of the
\* extractor leaves main() too.
FoundCodeowners ==
    /\ pc = "loop" /\ iterated < MaxRepos
    /\ repo' = [id |-> iterated + 1, exempt |-> FALSE, archived |-> FALSE]
    /\ iterated' = iterated + 1
    /\ codeowners_count' = codeowners_count + 1
    /\ \E found \in LocatorResults, large \in BOOLEAN :
        \E content \in IF large THEN BlobContents ELSE RepoContents :
          LET got == ExtractedFrom[content]
          IN  /\ found.contents # None
              /\ codeowners_filepath' = found.filepath
              /\ fetches' = IF large THEN Probes \o BlobFetches(found.filepath)
                                     ELSE Probes
              /\ codeowners_file_contents' \in
                     IF large THEN BlobRepresentations ELSE {"contents"}
              /\ decoded' = IF HasDecoded(codeowners_file_contents')
                            THEN content ELSE NoBytes
              /\ IF ~ExtractorDecodes(codeowners_file_contents')
                 THEN /\ usernames' = <<>> /\ k' = 0
                      /\ pc' = "crashed" /\ outcome' = "TypeError"
                 ELSE IF got.raised
                      THEN /\ usernames' = <<>> /\ k' = 0
                           /\ pc' = "crashed" /\ outcome' = "IndexError"
                      ELSE /\ usernames' = got.usernames /\ k' = 1
                           /\ pc' = IF got.usernames = <<>>
                                    THEN "after_loop" ELSE "members"
                           /\ outcome' = None
    /\ UNCHANGED <<config, gh_org, processed, printed,
                   pull_count, eligble_for_pr_count, no_codeowners_count,
                   users_count, accumulators, file_changed, usernames_to_remove,
                   codeowners_file_contents_new, default_branch_commit,
                   branch_name, pull, verdicts, calls, before, stats, textvars,
                   locvars>>

\* lines 114-116: the organization did not resolve: break
OrgNotFoundPc_Raise == "crashed"
OrgNotFoundPc == "after_loop"

\* lines 111-131: one turn of the handle loop.  The organization is resolved
\* again for every handle; when it does not resolve the loop is left.  Line
\* 130 reads .decoded, an AttributeError when the content is a blob's bytes.
CheckMember ==
    /\ pc = "members" /\ k <= Len(usernames)
    /\ LET username == usernames[k]
           org == RelevantOrg(repo.id)
       IN  \E found \in BOOLEAN :
             /\ gh_org' = GetOrg(org, found)
             /\ IF gh_org' = None
                THEN /\ pc' = OrgNotFoundPc
                     /\ UNCHANGED <<k, users_count, usernames_to_remove,
                                    file_changed, codeowners_file_contents_new,
                                    verdicts, outcome>>
                ELSE \E member \in IsMemberAnswers(org, username) :
                       /\ verdicts' = Append(verdicts,
                              [org |-> org, username |-> username,
                               member |-> member])
                       /\ IF member
                          THEN UNCHANGED <<users_count, usernames_to_remove,
                                           file_changed,
                                           codeowners_file_contents_new>>
                          ELSE /\ users_count' = users_count + 1
                               /\ usernames_to_remove' =
                                      Append(usernames_to_remove, username)
                               /\ IF ShouldRewrite(dry_run)
                                  THEN /\ file_changed' = TRUE
                                       /\ codeowners_file_contents_new' =
                                              IF HasDecoded(codeowners_file_contents)
                                              THEN RemoveUsername(decoded, username)
                                              ELSE codeowners_file_contents_new
                                  ELSE UNCHANGED <<file_changed,
                                                   codeowners_file_contents_new>>
                       /\ IF /\ ~member /\ ShouldRewrite(dry_run)
                             /\ ~HasDecoded(codeowners_file_contents)
                          THEN /\ pc' = "crashed" /\ outcome' = "AttributeError"
                               /\ UNCHANGED k
                          ELSE /\ k' = k + 1
                               /\ pc' = IF k = Len(usernames)
                                        THEN "after_loop" ELSE "members"
                               /\ UNCHANGED outcome
    /\ UNCHANGED <<config, processed, printed,
                   repo, pull_count, eligble_for_pr_count,
                   no_codeowners_count, codeowners_count, accumulators,
                   codeowners_filepath, codeowners_file_contents, decoded,
                   usernames, default_branch_commit, branch_name, pull, calls,
                   before, fetches, iterated, stats, textvars, locvars>>

\* lines 133-144: the stale usernames are recorded; a changed file makes the
\* repository eligible and its new content is parsed once more (line 140)
AfterLoop ==
    /\ pc = "after_loop"
    /\ repo_and_users_to_remove' =
          IF usernames_to_remove # <<>>
          THEN (repo.id :> usernames_to_remove) @@ repo_and_users_to_remove
          ELSE repo_and_users_to_remove
    /\ IF file_changed
       THEN /\ eligble_for_pr_count' = eligble_for_pr_count + 1
            /\ IF GetUsernamesFromBytes(codeowners_file_contents_new, TRUE).raised
               THEN pc' = "crashed" /\ outcome' = "IndexError"
               ELSE pc' = "commit_ref" /\ outcome' = None
       ELSE /\ pc' = "iter_end" /\ outcome' = "not_changed"
            /\ UNCHANGED eligble_for_pr_count
    /\ UNCHANGED <<config, gh_org, processed, printed,
                   repo, pull_count, no_codeowners_count,
                   codeowners_count, users_count, repos_missing_codeowners,
                   locals, verdicts, calls, before, fetches, iterated, stats, textvars,
                   locvars>>

----------------------------------------------------------------------------
(* commit_changes, lines 296-320, called from main lines 145-158 *)

Title == "TITLE"
Body == "BODY"
CommitMessage == "COMMIT_MESSAGE"

\* line 309: f"codeowners-{str(uuid.uuid4())}"
NewBranchName(uuid) == [name |-> "codeowners-", uuid |-> uuid]

\* a call of the repository API, as the service saw it, and whether it
\* succeeded (ok) or answered not found
Call(op, ok, args) == [op |-> op, ok |-> ok, args |-> args]

\* line 307: repo.ref(f"heads/{default_branch}")
RefArgs(default_branch) == [prefix |-> "heads/", branch |-> default_branch]

\* line 310: repo.create_ref(front_matter + branch_name, default_branch_commit)
CreateRefArgs_NoCommit(branch, commit) ==
    [prefix |-> "refs/heads/", branch |-> branch, sha |-> NoCommit]
CreateRefArgs(branch, commit) ==
    [prefix |-> "refs/heads/", branch |-> branch, sha |-> commit]

\* lines 311-315: .update(message=..., content=..., branch=branch_name)
UpdateArgs_DefaultBranch(path, content, branch, default_branch) ==
    [path |-> path, message |-> CommitMessage, content |-> content,
     branch |-> default_branch]
UpdateArgs(path, content, branch, default_branch) ==
    [path |-> path, message |-> CommitMessage, content |-> content,
     branch |-> branch]

\* lines 317-319: create_pull(title, body, head=branch_name, base=repo.default_branch)
CreatePullArgs(branch, default_branch) ==
    [title |-> Title, body |-> Body, head |-> branch, base |-> default_branch]

\* the pull request create_pull answers with
PullRequest(args) == [head |-> args.head, base |-> args.base]

\* lines 156-158: NotFoundError from commit_changes: log and continue
PullFailed_Retry ==
    /\ pc' = "commit_ref"
    /\ UNCHANGED <<outcome, pull_count, pull>>
PullFailed_Fatal ==
    /\ pc' = "crashed" /\ outcome' = "NotFoundError"
    /\ UNCHANGED <<pull_count, pull>>
PullFailed ==
    /\ pc' = "iter_end" /\ outcome' = "pr_failed"
    /\ UNCHANGED <<pull_count, pull>>

\* lines 305-307: the default branch's head commit
CommitReadRef ==
    /\ pc = "commit_ref"
    /\ \E ok \in BOOLEAN :
          /\ calls' = Append(calls,
                 Call("ref", ok, RefArgs(RepoDefaultBranch(repo.id))))
          /\ IF ok
             THEN /\ default_branch_commit' = RepoHeadSha(repo.id)
                  /\ pc' = "commit_create_ref"
                  /\ UNCHANGED <<outcome, pull_count, pull>>
             ELSE PullFailed /\ UNCHANGED default_branch_commit
    /\ UNCHANGED <<config, gh_org, processed, printed,
                   repo, eligble_for_pr_count, no_codeowners_count,
                   codeowners_count, users_count, accumulators, file_changed,
                   codeowners_filepath, codeowners_file_contents,
                   decoded, usernames, k,
                   usernames_to_remove, codeowners_file_contents_new,
                   branch_name, verdicts, before, fetches, iterated, stats, textvars,
                   locvars>>

\* lines 308-310: the new branch, at the commit read before
CommitCreateRef ==
    /\ pc = "commit_create_ref"
    /\ branch_name' = NewBranchName(Uuid4(repo.id))
    /\ \E ok \in BOOLEAN :
          /\ calls' = Append(calls,
                 Call("create_ref", ok,
                      CreateRefArgs(branch_name', default_branch_commit)))
          /\ IF ok
             THEN /\ pc' = "commit_update"
                  /\ UNCHANGED <<outcome, pull_count, pull>>
             ELSE PullFailed
    /\ UNCHANGED <<config, gh_org, processed, printed,
                   repo, eligble_for_pr_count, no_codeowners_count,
                   codeowners_count, users_count, accumulators, file_changed,
                   codeowners_filepath, codeowners_file_contents,
                   decoded, usernames, k,
                   usernames_to_remove, codeowners_file_contents_new,
                   default_branch_commit, verdicts, before, fetches, iterated, stats,
                   textvars, locvars>>

\* lines 311-315: the file is fetched, then updated on the new branch; either
\* request may answer not found
CommitUpdateFile ==
    /\ pc = "commit_update"
    /\ \E fetched \in BOOLEAN, ok \in BOOLEAN :
          LET fetch == Call("file_contents", fetched,
                            [path |-> codeowners_filepath])
              update == Call("update", ok,
                             UpdateArgs(codeowners_filepath,
                                        codeowners_file_contents_new,
                                        branch_name,
                                        RepoDefaultBranch(repo.id)))
          IN  IF ~fetched
              THEN calls' = Append(calls, fetch) /\ PullFailed
              ELSE /\ calls' = calls \o <<fetch, update>>
                   /\ IF ok
                      THEN /\ pc' = "commit_pull"
                           /\ UNCHANGED <<outcome, pull_count, pull>>
                      ELSE PullFailed
    /\ UNCHANGED <<config, gh_org, processed, printed,
                   repo, eligble_for_pr_count, no_codeowners_count,
                   codeowners_count, users_count, accumulators, file_changed,
                   codeowners_filepath, codeowners_file_contents,
                   decoded, usernames, k,
                   usernames_to_remove, codeowners_file_contents_new,
                   default_branch_commit, branch_name, verdicts, before, fetches,
                   iterated, stats, textvars, locvars>>

\* lines 317-320 and 146, 154-155: the pull request is opened and returned;
\* back in main, pull_count
CommitCreatePull ==
    /\ pc = "commit_pull"
    /\ \E ok \in BOOLEAN :
          LET args == CreatePullArgs(branch_name, RepoDefaultBranch(repo.id))
          IN  /\ calls' = Append(calls, Call("create_pull", ok, args))
              /\ IF ok
                 THEN /\ pull' = PullRequest(args)
                      /\ pull_count' = pull_count + 1
                      /\ pc' = "iter_end" /\ outcome' = "pr_created"
                 ELSE PullFailed
    /\ UNCHANGED <<config, gh_org, processed, printed,
                   repo, eligble_for_pr_count, no_codeowners_count,
                   codeowners_count, users_count, accumulators, file_changed,
                   codeowners_filepath, codeowners_file_contents,
                   decoded, usernames, k,
                   usernames_to_remove, codeowners_file_contents_new,
                   default_branch_commit, branch_name, verdicts, before, fetches,
                   iterated, stats, textvars, locvars>>

\* line 73: the loop takes its next turn; the iteration's locals are
\* assigned again before they are read (lines 85-86, 103, 109-110, 113)
NextIteration_ResetCount ==
    /\ pc = "iter_end"
    /\ pc' = "loop" /\ repo' = NoRepo /\ ClearLocals
    /\ verdicts' = <<>> /\ calls' = <<>> /\ fetches' = <<>> /\ outcome' = None
    /\ users_count' = 0
    /\ before' = [Counters EXCEPT !.users_count = 0]
    /\ processed' = Append(processed, [repo |-> repo, outcome |-> outcome])
    /\ gh_org' = None
    /\ UNCHANGED <<config, printed, pull_count, eligble_for_pr_count,
                   no_codeowners_count, codeowners_count, accumulators,
                   iterated, stats, textvars, locvars>>
NextIteration ==
    /\ pc = "iter_end"
    /\ pc' = "loop" /\ repo' = NoRepo /\ ClearLocals
    /\ verdicts' = <<>> /\ calls' = <<>> /\ fetches' = <<>> /\ outcome' = None
    /\ before' = Counters
    /\ processed' = Append(processed, [repo |-> repo, outcome |-> outcome])
    /\ gh_org' = None
    /\ UNCHANGED <<config, printed,
                   counters, accumulators, iterated, stats, textvars,
                   locvars>>

\* lines 160-167: the iterator is exhausted; print_stats gets the counters
Report ==
    /\ pc = "loop"
    /\ stats' = <<Counters>>
    /\ printed' = <<PrintStats(pull_count, eligble_for_pr_count,
                               no_codeowners_count, codeowners_count,
                               users_count)>>
    /\ pc' = "done"
    /\ UNCHANGED <<config, gh_org, processed,
                   repo, counters, accumulators, locals, history,
                   iterated, textvars, locvars>>

Next ==
    \/ Startup
    \/ SkipExempt
    \/ SkipArchived
    \/ NoCodeowners
    \/ FoundCodeowners
    \/ CheckMember
    \/ AfterLoop
    \/ CommitReadRef
    \/ CommitCreateRef
    \/ CommitUpdateFile
    \/ CommitCreatePull
    \/ NextIteration
    \/ Report

Spec == Init /\ [][Next]_vars

----------------------------------------------------------------------------
(* SpecLocator: get_codeowners_file on one repository, probe by probe *)

InitLocator ==
    /\ RunIdle /\ TextIdle
    /\ l_files \in RepoFiles
    /\ l_next = 1 /\ l_result = NoFile

\* lines 187-195, 196-204, 205-213: the next try block
Probe ==
    /\ l_next \in 1..Len(CandidatePaths)
    /\ l_result' = ProbeCandidate(l_files, CandidatePaths[l_next], l_result)
    /\ l_next' = l_next + 1
    /\ UNCHANGED <<runvars, textvars, l_files>>

\* line 214 has returned l_result
Returned == l_next = Len(CandidatePaths) + 1

NextLocator == Probe

SpecLocator == InitLocator /\ [][NextLocator]_vars

----------------------------------------------------------------------------
(* SpecText: the extractor and the rewriter on generated contents *)

\* the longest content, in tokens
MaxToks == 4

TextTokens ==
    {<<"*">>, <<SP>>, <<NL>>, <<HASH>>, <<AT>>, <<"b">>,
     <<AT, "a">>, <<AT, "a", "b">>, <<AT, "a", SLASH, "b">>}

TokenContents ==
    {Flatten(ts) : ts \in UNION {[1..n -> TextTokens] : n \in 0..MaxToks}}

\* rule lines "<pattern> @a @b/c @d"; a path pattern may hold an "@" itself
RulePatterns == {<<"*">>, <<SLASH, "b">>, <<SLASH, AT, "b", SLASH>>}
RuleUsers == {<<"a">>, <<"a", "b">>, <<"b">>}
RuleTeams == {<<"a", SLASH, "b">>, <<"b", SLASH, "a", "b">>}
RuleLine(pattern, a, team, d) ==
    pattern \o <<SP, AT>> \o a \o <<SP, AT>> \o team \o <<SP, AT>> \o d
RuleLines ==
    {RuleLine(p, a, t, d) :
        p \in RulePatterns, a \in RuleUsers, t \in RuleTeams, d \in RuleUsers}

TextContents == TokenContents \cup RuleLines

InitText ==
    /\ RunIdle /\ LocatorIdle
    /\ t_content \in TextContents
    /\ t_pc = "input" /\ t_ignore_teams = TRUE
    /\ t_raised = FALSE /\ t_usernames = <<>> /\ t_username = NoBytes
    /\ t_new = NoBytes /\ t_new_raised = FALSE /\ t_new_usernames = <<>>
    /\ ReprIdle

\* get_usernames_from_codeowners(content, ignore_teams=...), lines 279-293
Extract ==
    /\ t_pc = "input"
    /\ \E ignore_teams \in BOOLEAN :
          LET got == GetUsernamesFromBytes(t_content, ignore_teams)
          IN  /\ t_ignore_teams' = ignore_teams
              /\ t_raised' = got.raised
              /\ t_usernames' = got.usernames
    /\ t_pc' = "extracted"
    /\ UNCHANGED <<runvars, locvars, reprvars, t_content, t_username, t_new,
                   t_new_raised, t_new_usernames>>

\* lines 128-131 for one stale username among those main() extracted
Rewrite ==
    /\ t_pc = "extracted" /\ t_ignore_teams /\ ~t_raised
    /\ \E i \in 1..Len(t_usernames) :
          /\ t_username' = t_usernames[i]
          /\ t_new' = RemoveUsername(t_content, t_usernames[i])
    /\ t_pc' = "rewritten"
    /\ UNCHANGED <<runvars, locvars, reprvars, t_content, t_ignore_teams, t_raised,
                   t_usernames, t_new_raised, t_new_usernames>>

\* line 140: get_usernames_from_codeowners(codeowners_file_contents_new)
ReExtract ==
    /\ t_pc = "rewritten"
    /\ LET got == GetUsernamesFromBytes(t_new, TRUE)
       IN  /\ t_new_raised' = got.raised
           /\ t_new_usernames' = got.usernames
    /\ t_pc' = "reextracted"
    /\ UNCHANGED <<runvars, locvars, reprvars, t_content, t_ignore_teams, t_raised,
                   t_usernames, t_username, t_new>>

NextText ==
    \/ Extract
    \/ Rewrite
    \/ ReExtract

SpecText == InitText /\ [][NextText]_vars

----------------------------------------------------------------------------
(* SpecDecode: get_usernames_from_codeowners as a whole, lines 254-293 *)

\* what codeowners_file_contents can be:
\*   contents       an object with .decoded bytes (github3 Contents)
\*   contents_none  an object whose .decoded is None
\*   bytes          raw bytes
\*   text           a str: it has no decode()
\*   decodable      an object whose decode() returns its text
\*   undecodable    an object whose decode() raises UnicodeDecodeError
Representations ==
    {"contents", "contents_none", "bytes", "text", "decodable", "undecodable"}

\* lines 258-265: the try block raises
DecodeRaises(repr) == repr \in {"contents_none", "text", "undecodable"}

\* the callbacks: none, a function (repo_obj, title, body), and the bound
\* method repo.create_issue(title, body=None, ...) that main passes (line 106)
IssueOpeners == {None, "opener", "create_issue"}

\* line 270
ParseFailureTitle == <<"warning sign", "Unable to parse CODEOWNERS file">>

\* line 267: if repo and open_issue_func
OpensIssue(has_repo, func) == has_repo /\ func # None

\* lines 268-276: open_issue_func(repo, title=..., body=...).  The bound
\* method takes the positional repo for its title and is then given title
\* again: TypeError, raised before the method runs
IssueCall(func) ==
    [func |-> func, title |-> ParseFailureTitle, ok |-> func # "create_issue"]

\* lines 254-293: raised = an exception left the function; issues = the calls
\* open_issue_func received
GetUsernamesFromCodeowners(repr, content, has_repo, func, ignore_teams) ==
    IF DecodeRaises(repr)
    THEN IF OpensIssue(has_repo, func)
         THEN [raised |-> ~IssueCall(func).ok, usernames |-> <<>>,
               issues |-> <<IssueCall(func)>>]
         ELSE [raised |-> FALSE, usernames |-> <<>>, issues |-> <<>>]
    ELSE [raised |-> GetUsernamesFromBytes(content, ignore_teams).raised,
          usernames |-> GetUsernamesFromBytes(content, ignore_teams).usernames,
          issues |-> <<>>]

InitDecode ==
    /\ RunIdle /\ LocatorIdle
    /\ t_pc = "call"
    /\ t_repr \in Representations
    /\ t_content \in RepoContents
    /\ t_repo \in BOOLEAN
    /\ t_open_issue_func \in IssueOpeners
    /\ t_ignore_teams = TRUE /\ t_raised = FALSE /\ t_usernames = <<>>
    /\ t_issues = <<>>
    /\ t_username = NoBytes /\ t_new = NoBytes /\ t_new_raised = FALSE
    /\ t_new_usernames = <<>>

\* one call of get_usernames_from_codeowners
Decode ==
    /\ t_pc = "call"
    /\ \E ignore_teams \in BOOLEAN :
          LET got == GetUsernamesFromCodeowners(t_repr, t_content, t_repo,
                                                t_open_issue_func, ignore_teams)
          IN  /\ t_ignore_teams' = ignore_teams
              /\ t_raised' = got.raised
              /\ t_usernames' = got.usernames
              /\ t_issues' = got.issues
    /\ t_pc' = "returned"
    /\ UNCHANGED <<runvars, locvars, t_content, t_repr, t_repo,
                   t_open_issue_func, t_username, t_new, t_new_raised,
                   t_new_usernames>>

NextDecode == Decode

SpecDecode == InitDecode /\ [][NextDecode]_vars

----------------------------------------------------------------------------
(* SpecStats: print_stats on its own, for counters of any value *)

\* the largest pull_count and eligble_for_pr_count given to print_stats
MaxStat == 10

\* the largest no_codeowners_count and codeowners_count given to print_stats
MaxRepoStat == 3

\* the values of users_count given to print_stats
UserStats == {0, 4}

InitStats ==
    /\ organization = None /\ repository_list = TRUE /\ dry_run = TRUE
    /\ pc = "print_stats"
    /\ pull_count \in 0..MaxStat
    /\ eligble_for_pr_count \in 0..MaxStat
    /\ no_codeowners_count \in 0..MaxRepoStat
    /\ codeowners_count \in 0..MaxRepoStat
    /\ users_count \in UserStats
    /\ repo = NoRepo
    /\ repo_and_users_to_remove = <<>> /\ repos_missing_codeowners = <<>>
    /\ LocalsCleared
    /\ verdicts = <<>> /\ calls = <<>> /\ fetches = <<>> /\ outcome = None
    /\ before = Counters
    /\ iterated = 0 /\ stats = <<>>
    /\ gh_org = None /\ processed = <<>> /\ printed = <<>>
    /\ TextIdle /\ LocatorIdle

\* print_stats(pull_count, eligble_for_pr_count, no_codeowners_count,
\* codeowners_count, users_count), lines 217-236
PrintStatsCall ==
    /\ pc = "print_stats"
    /\ stats' = <<Counters>>
    /\ printed' = <<PrintStats(pull_count, eligble_for_pr_count,
                               no_codeowners_count, codeowners_count,
                               users_count)>>
    /\ pc' = "printed"
    /\ UNCHANGED <<config, gh_org, processed, repo, counters, accumulators,
                   locals, history, iterated, textvars, locvars>>

NextStats == PrintStatsCall

SpecStats == InitStats /\ [][NextStats]_vars

----------------------------------------------------------------------------
(* Properties *)

\* sub occurs in s as a run of consecutive bytes
Occurs(sub, s) ==
    \E i \in 1..(Len(s) - Len(sub) + 1) : SubSeq(s, i, i + Len(sub) - 1) = sub

\* main() is inside commit_changes(..., codeowners_file_contents_new, ...)
InChangeDriver ==
    pc \in {"commit_ref", "commit_create_ref", "commit_update", "commit_pull"}

\* the calls of this iteration to one API method
CallsOf(op) == SelectSeq(calls, LAMBDA c : c.op = op)

AllCallsSucceeded == \A i \in 1..Len(calls) : calls[i].ok

\* the usernames the directory answered "not a member" for, in query order
NonMembersAsked ==
    MapSeq(SelectSeq(verdicts, LAMBDA v : ~v.member), LAMBDA v : v.username)

\* how many usernames repo_and_users_to_remove holds for repositories 1..n
RECURSIVE RecordedUpTo(_)
RecordedUpTo(n) ==
    IF n = 0 THEN 0
    ELSE RecordedUpTo(n - 1)
         + (IF n \in DOMAIN repo_and_users_to_remove
            THEN Len(repo_and_users_to_remove[n]) ELSE 0)

\* C1: with dry-run off, the content handed to the Change Driver holds no
\* "@h" for any handle h of the repository's stale list.
C1_EveryStaleHandleDeleted ==
    InChangeDriver =>
        \A i \in 1..Len(usernames_to_remove) :
            ~Occurs(BytesUsername(usernames_to_remove[i]),
                    codeowners_file_contents_new)

\* C2: a repository with CODEOWNERS, dry-run off, a stale user and no failing
\* Change Driver call ends its iteration with exactly one branch created at
\* the default branch's head, one file update on that branch, one pull request,
\* and the eligible and pull-request counters each one higher than before.
C2_OneBranchOneUpdateOnePull ==
    (pc = "iter_end" /\ ~dry_run /\ usernames_to_remove # <<>>
        /\ AllCallsSucceeded) =>
        /\ outcome = "pr_created"
        /\ Len(CallsOf("create_ref")) = 1
        /\ CallsOf("create_ref")[1].args.sha = RepoHeadSha(repo.id)
        /\ Len(CallsOf("update")) = 1
        /\ CallsOf("update")[1].args.branch = CallsOf("create_ref")[1].args.branch
        /\ Len(CallsOf("create_pull")) = 1
        /\ eligble_for_pr_count = before.eligble_for_pr_count + 1
        /\ pull_count = before.pull_count + 1

C2_Witness ==
    /\ pc = "iter_end" /\ outcome = "pr_created" /\ ~dry_run
    /\ usernames_to_remove # <<>> /\ AllCallsSucceeded
    /\ pull_count = 1

\* C3: in a dry run no branch, file update or pull request call is ever made,
\* nothing is rewritten, the eligible and pull-request counters stay 0; the
\* stale list is still every username answered "not a member", each is counted
\* in users_count, and the list is recorded under its repository.
C3_DryRunOnlyReports ==
    dry_run =>
        /\ calls = <<>> /\ ~file_changed
        /\ codeowners_file_contents_new = NoBytes
        /\ eligble_for_pr_count = 0 /\ pull_count = 0
        /\ usernames_to_remove = NonMembersAsked
        /\ users_count =
              RecordedUpTo(iterated)
              + (IF pc \in {"members", "after_loop"}
                 THEN Len(usernames_to_remove) ELSE 0)
        /\ (pc = "iter_end" /\ usernames_to_remove # <<>>) =>
              /\ repo.id \in DOMAIN repo_and_users_to_remove
              /\ repo_and_users_to_remove[repo.id] = usernames_to_remove

C3_Witness ==
    /\ dry_run /\ pc = "iter_end" /\ iterated = 2
    /\ Len(usernames_to_remove) = 2 /\ users_count > 2
    /\ repo_and_users_to_remove[2] = usernames_to_remove


\* the handle loop of this iteration is over
LoopDone ==
    pc \in {"after_loop", "commit_ref", "commit_create_ref", "commit_update",
            "commit_pull", "iter_end"}
    /\ outcome \notin {"exempt", "archived", "no_codeowners"}

\* the stale list is, in extraction order and with repeats, the extracted
\* usernames the relevant organization answered "not a member" for
StaleListIsNonMembers ==
    /\ \A i \in 1..Len(verdicts) :
          /\ verdicts[i].username = usernames[i]
          /\ verdicts[i].org =
                (IF organization # None THEN organization ELSE RepoOwner(repo.id))
    /\ usernames_to_remove = NonMembersAsked
    /\ \A i \in 1..Len(verdicts) :
          verdicts[i].member =>
              \A j \in 1..Len(usernames_to_remove) :
                  usernames_to_remove[j] # verdicts[i].username

\* C4: the stale list is exactly the extracted user handles the relevant
\* organization (the configured one, else the repository's owner) answered
\* "not a member" for, and a handle that is a member is neither recorded as
\* stale nor removed: its "@handle" is still in the rewritten content.
C4_OnlyNonMembersStaleOrRemoved ==
    LoopDone =>
        /\ StaleListIsNonMembers
        /\ file_changed =>
              \A i \in 1..Len(verdicts) :
                  verdicts[i].member =>
                      Occurs(BytesUsername(verdicts[i].username),
                             codeowners_file_contents_new)

\* the team handles of a content, as the extractor reads them
TeamHandles(content) ==
    SelectSeq(GetUsernamesFromBytes(content, FALSE).usernames, IsTeam)

\* C5: every "@org/team" token of the original content is still, byte for
\* byte, in the rewritten content.
C5_TeamHandlesKept ==
    file_changed =>
        \A i \in 1..Len(TeamHandles(decoded)) :
            Occurs(BytesUsername(TeamHandles(decoded)[i]),
                   codeowners_file_contents_new)

\* C6: after rewriting for one stale username u, no "@u" is left in the new
\* content and extraction from it does not return u.
C6_RewrittenContentHasNoUser ==
    t_pc = "reextracted" =>
        /\ ~Occurs(BytesUsername(t_username), t_new)
        /\ ~t_new_raised
        /\ \A i \in 1..Len(t_new_usernames) : t_new_usernames[i] # t_username

\* C7: a not-found answer to any Change Driver call ends that repository's
\* iteration only: nothing is called after it, eligible keeps its increment,
\* pull_count is not incremented, the loop can take its next turn, and the
\* statistics are reported from the counters when the iterator is exhausted.
C7_NotFoundSkipsRepository ==
    /\ (\E i \in 1..Len(calls) : ~calls[i].ok) =>
          /\ pc = "iter_end" /\ outcome = "pr_failed"
          /\ \A i \in 1..(Len(calls) - 1) : calls[i].ok
          /\ eligble_for_pr_count = before.eligble_for_pr_count + 1
          /\ pull_count = before.pull_count
          /\ pull = NoPull
    /\ outcome = "pr_failed" => ENABLED NextIteration
    /\ pc = "loop" => ENABLED Report
    /\ pc = "done" => stats = <<Counters>>

C7_Witness ==
    /\ pc = "iter_end" /\ outcome = "pr_failed"
    /\ Len(calls) = 4 /\ calls[2].ok /\ ~calls[4].ok
    /\ iterated < MaxRepos

\* the API methods commit_changes calls, in its order
CommitChangesCalls ==
    <<"ref", "create_ref", "file_contents", "update", "create_pull">>

\* C8: commit_changes reads the default branch head, creates
\* refs/heads/codeowners-<uuid> at exactly that commit, updates the file at the
\* given path with the new content and commit message on the new branch, opens
\* the pull request from the new branch to the default branch, each once, in
\* this order, each only after the earlier ones succeeded, and returns the pull
\* request create_pull answered with.
C8_CommitChangesOrder ==
    /\ Len(calls) <= Len(CommitChangesCalls)
    /\ \A i \in 1..Len(calls) :
          /\ calls[i].op = CommitChangesCalls[i]
          /\ i < Len(calls) => calls[i].ok
    /\ Len(calls) >= 1 =>
          calls[1].args = [prefix |-> "heads/", branch |-> RepoDefaultBranch(repo.id)]
    /\ Len(calls) >= 2 =>
          /\ calls[2].args.prefix = "refs/heads/"
          /\ calls[2].args.branch.name = "codeowners-"
          /\ calls[2].args.branch # RepoDefaultBranch(repo.id)
          /\ calls[2].args.sha = RepoHeadSha(repo.id)
    /\ Len(calls) >= 3 => calls[3].args.path = codeowners_filepath
    /\ Len(calls) >= 4 =>
          calls[4].args = [path |-> codeowners_filepath,
                           message |-> CommitMessage,
                           content |-> codeowners_file_contents_new,
                           branch |-> calls[2].args.branch]
    /\ Len(calls) >= 5 =>
          calls[5].args = [title |-> Title, body |-> Body,
                           head |-> calls[2].args.branch,
                           base |-> RepoDefaultBranch(repo.id)]
    /\ outcome = "pr_created" <=> (Len(calls) = 5 /\ calls[5].ok)
    /\ outcome = "pr_created" =>
          pull = [head |-> calls[5].args.head, base |-> calls[5].args.base]
    /\ outcome # "pr_created" => pull = NoPull

C8_Witness ==
    /\ outcome = "pr_created" /\ Len(calls) = 5 /\ AllCallsSucceeded
    /\ pull.head = branch_name /\ pull.base = RepoDefaultBranch(repo.id)


\* the candidates among the first n that hold a non-empty file
NonEmptyAmong(n) ==
    {i \in 1..n : /\ l_files[CandidatePaths[i]].kind = "contents"
                  /\ l_files[CandidatePaths[i]].size > 0}

Last(S) == CHOOSE i \in S : \A j \in S : j <= i

\* C9: get_codeowners_file probes .github/CODEOWNERS, CODEOWNERS and
\* docs/CODEOWNERS in this order and returns the contents and path of the last
\* candidate that exists with size > 0, or (None, None) when there is none.
C9_LastNonEmptyCandidateWins ==
    /\ CandidatePaths = <<".github/CODEOWNERS", "CODEOWNERS", "docs/CODEOWNERS">>
    /\ l_next >= 1 =>
          LET probed == NonEmptyAmong(l_next - 1)
          IN  IF probed = {} THEN l_result = NoFile
              ELSE l_result = [contents |-> CandidatePaths[Last(probed)],
                               filepath |-> CandidatePaths[Last(probed)]]
    /\ (Returned /\ NonEmptyAmong(3) = {1}) =>
          l_result.filepath = ".github/CODEOWNERS"
    /\ (Returned /\ {2, 3} \subseteq NonEmptyAmong(3)) =>
          l_result.filepath = "docs/CODEOWNERS"

C9_Witness ==
    /\ Returned /\ NonEmptyAmong(3) = {1, 2, 3}
    /\ l_result.filepath = "docs/CODEOWNERS"

\* the index at which the line holding byte i of content c begins
LineStartOf(c, i) ==
    CHOOSE s \in 1..i :
        /\ s = 1 \/ c[s - 1] = NL
        /\ \A j \in s..(i - 1) : c[j] # NL

\* byte i of c, an "@", lies in a line whose first non-blank byte is "#"
InCommentLine(c, i) ==
    LET s == LineStartOf(c, i)
        p == CHOOSE q \in s..i : c[q] # SP /\ \A r \in s..(q - 1) : c[r] = SP
    IN  c[p] = HASH

\* the bytes after the "@" at index i, up to the next blank, line end or "@"
HandleAt(c, i) ==
    LET stops == {j \in (i + 1)..Len(c) : c[j] \in {SP, NL, AT}}
        e == IF stops = {} THEN Len(c) + 1
             ELSE CHOOSE j \in stops : \A j2 \in stops : j <= j2
    IN  SubSeq(c, i + 1, e - 1)

\* the handles of the "@" tokens of c outside comment lines, by position
RECURSIVE HandlesFrom(_, _)
HandlesFrom(c, i) ==
    IF i > Len(c) THEN <<>>
    ELSE (IF c[i] = AT /\ ~InCommentLine(c, i) THEN <<HandleAt(c, i)>> ELSE <<>>)
         \o HandlesFrom(c, i + 1)

\* every "@" outside a comment line is directly followed by a handle
EveryAtHasHandle(c) ==
    \A i \in 1..Len(HandlesFrom(c, 1)) : HandlesFrom(c, 1)[i] # <<>>

\* C10 as stated: any rule line "<pattern> @a @b/c @d" yields [a, d] when
\* teams are ignored and [a, b/c, d] when they are not.
C10_AnyRuleLine ==
    t_pc = "extracted" =>
        \A p \in RulePatterns, a \in RuleUsers, t \in RuleTeams, d \in RuleUsers :
            t_content = RuleLine(p, a, t, d) =>
                /\ ~t_raised
                /\ t_usernames = IF t_ignore_teams THEN <<a, d>> ELSE <<a, t, d>>

\* C10, amended: a rule line "<pattern> @a @b/c @d" whose pattern holds no "@"
\* yields [a, d] when teams are ignored and [a, b/c, d] when they are not; over
\* a whole file the result is the handles in order of appearance, repeats kept,
\* teams in their org/team form.
C10_HandlesInOrderOfAppearance ==
    t_pc = "extracted" =>
        /\ \A p \in RulePatterns, a \in RuleUsers, t \in RuleTeams, d \in RuleUsers :
              (t_content = RuleLine(p, a, t, d) /\ ~Contains(p, AT)) =>
                  /\ ~t_raised
                  /\ t_usernames = IF t_ignore_teams THEN <<a, d>> ELSE <<a, t, d>>
        /\ EveryAtHasHandle(t_content) =>
              /\ ~t_raised
              /\ t_usernames =
                    SelectSeq(HandlesFrom(t_content, 1),
                              LAMBDA h : t_ignore_teams => ~Contains(h, SLASH))

C10_Witness ==
    /\ t_pc = "extracted" /\ t_ignore_teams
    /\ t_content = RuleLine(<<"*">>, <<"a">>, <<"a", SLASH, "b">>, <<"a">>)
    /\ t_usernames = <<<<"a">>, <<"a">>>>


\* C11: when the decode raises, get_usernames_from_codeowners returns the
\* empty list; the callback is called exactly once, with the parse-failure
\* title, when a repo and a callback were given, and not at all otherwise;
\* it is never called when decoding succeeds.
C11_DecodeFailureOpensOneIssue ==
    t_pc = "returned" =>
        IF DecodeRaises(t_repr)
        THEN /\ ~t_raised /\ t_usernames = <<>>
             /\ IF t_repo /\ t_open_issue_func # None
                THEN /\ Len(t_issues) = 1
                     /\ t_issues[1].func = t_open_issue_func
                     /\ t_issues[1].ok
                     /\ \E i \in 1..Len(t_issues[1].title) :
                           t_issues[1].title[i] = "Unable to parse CODEOWNERS file"
                ELSE t_issues = <<>>
        ELSE t_issues = <<>>

\* the iterations that ended and satisfy P
Ended(P(_)) == {i \in 1..Len(processed) : P(processed[i])}

\* the ids of the repositories whose iteration ended with one of the outcomes
EndedWith(outcomes) ==
    SelectSeq([i \in 1..Len(processed) |-> processed[i]],
              LAMBDA e : e.outcome \in outcomes)

\* C12: when the run has completed, every iterated repository ended in
\* exactly one of exempt (checked first), archived, no-codeowners and
\* has-codeowners; no_codeowners_count + codeowners_count is the number of
\* repositories neither exempt nor archived; the missing list is exactly the
\* repositories counted in no_codeowners_count; each repository with
\* CODEOWNERS is either unchanged or counted in eligible once.  Within an
\* iteration the counters move accordingly.
C12_EachRepositoryCountedOnce ==
    /\ pc = "done" =>
          /\ Len(processed) = iterated
          /\ \A i \in 1..Len(processed) :
                LET e == processed[i]
                IN  /\ e.repo.id = i
                    /\ e.repo.exempt => e.outcome = "exempt"
                    /\ (~e.repo.exempt /\ e.repo.archived) => e.outcome = "archived"
                    /\ (~e.repo.exempt /\ ~e.repo.archived) =>
                          e.outcome \in {"no_codeowners", "not_changed",
                                         "pr_created", "pr_failed"}
          /\ no_codeowners_count + codeowners_count =
                Cardinality(Ended(LAMBDA e : ~e.repo.exempt /\ ~e.repo.archived))
          /\ no_codeowners_count =
                Cardinality(Ended(LAMBDA e : e.outcome = "no_codeowners"))
          /\ repos_missing_codeowners =
                [i \in 1..Len(EndedWith({"no_codeowners"})) |->
                    EndedWith({"no_codeowners"})[i].repo.id]
          /\ eligble_for_pr_count =
                Cardinality(Ended(LAMBDA e : e.outcome \in {"pr_created", "pr_failed"}))
          /\ codeowners_count = eligble_for_pr_count +
                Cardinality(Ended(LAMBDA e : e.outcome = "not_changed"))
    /\ pc = "iter_end" =>
          LET skipped == repo.exempt \/ repo.archived
              d_none == no_codeowners_count - before.no_codeowners_count
              d_with == codeowners_count - before.codeowners_count
              d_elig == eligble_for_pr_count - before.eligble_for_pr_count
          IN  /\ d_none + d_with = IF skipped THEN 0 ELSE 1
              /\ d_none \in {0, 1} /\ d_with \in {0, 1}
              /\ d_elig = IF outcome \in {"pr_created", "pr_failed"} THEN 1 ELSE 0
              /\ d_elig <= d_with
              /\ Len(repos_missing_codeowners) = no_codeowners_count
              /\ d_none = 1 => repos_missing_codeowners[no_codeowners_count] = repo.id

C12_Witness ==
    /\ pc = "done" /\ Len(processed) = 2
    /\ processed[1].repo.exempt /\ processed[1].repo.archived
    /\ processed[2].outcome = "pr_failed"
    /\ codeowners_count = 1 /\ no_codeowners_count = 0

\* the handle loop of this iteration was left at handle k because the
\* organization did not resolve (line 114-116), not by an exception of
\* line 130
OrgUnresolved ==
    /\ pc # "members" /\ k >= 1 /\ k <= Len(usernames)
    /\ outcome # "AttributeError"

StartupOrgMissing ==
    /\ organization # None /\ ~repository_list
    /\ pc # "start" /\ iterated = 0 /\ gh_org = None

\* C14: with an organization, no repository list and an organization that
\* does not resolve at startup, the run ends in the fatal ValueError before
\* any repository is listed: counters at 0, no probe, membership query,
\* branch, commit or pull request call, no statistics, and no further step.
C14_StartupOrgMissingIsFatal ==
    /\ StartupOrgMissing => pc = "fatal"
    /\ pc = "fatal" =>
          /\ StartupOrgMissing
          /\ pull_count = 0 /\ eligble_for_pr_count = 0
          /\ no_codeowners_count = 0 /\ codeowners_count = 0 /\ users_count = 0
          /\ repo = NoRepo /\ processed = <<>> /\ LocalsCleared
          /\ repo_and_users_to_remove = <<>> /\ repos_missing_codeowners = <<>>
          /\ verdicts = <<>> /\ calls = <<>>
          /\ stats = <<>> /\ printed = <<>>
          /\ ~ENABLED Next

C14_Witness ==
    pc = "fatal" /\ organization = "acme" /\ ~repository_list /\ gh_org = None

\* every byte of c that is not whitespace lies behind a "#" that is the
\* first such byte of its line: c holds comment lines and blank lines only
OnlyCommentsAndBlanks(c) ==
    \A i \in 1..Len(c) :
        c[i] \notin Whitespace =>
            \E j \in 1..i :
                /\ c[j] = HASH
                /\ \A m \in j..i : c[m] # NL
                /\ \A m \in LineStartOf(c, i)..(j - 1) : c[m] \in Whitespace

\* C15: a content of comment lines and blank lines only yields no handle,
\* whatever "@" tokens the comments hold, with teams ignored or not.
C15_CommentsAndBlanksYieldNothing ==
    (t_pc = "extracted" /\ OnlyCommentsAndBlanks(t_content)) =>
        ~t_raised /\ t_usernames = <<>>

C15_Witness ==
    /\ t_pc = "extracted" /\ ~t_ignore_teams
    /\ t_content = <<SP, HASH, AT, "a", SLASH, "b", AT, "a">>
    /\ t_usernames = <<>>

\* C16: print_stats prints "No pull requests were needed" exactly when the
\* eligible count is 0, else pull_count / eligible as a percentage (5 of 10:
\* 50.0%); "No repositories were processed" exactly when codeowners_count +
\* no_codeowners_count is 0, else codeowners_count over that sum as a
\* percentage (3 of 5: 60.0%); it never divides by zero.
C16_PrintStatsRatios ==
    printed # <<>> =>
        LET out == printed[1]
            total == codeowners_count + no_codeowners_count
        IN  /\ ~out.raised
            /\ out.eligible.text = "No pull requests were needed"
                  <=> eligble_for_pr_count = 0
            /\ eligble_for_pr_count # 0 =>
                  /\ out.eligible.text =
                        "% of eligible repositories had pull requests created"
                  /\ LET p == out.eligible.percent
                         shown == IF Len(p.decimals) = 1
                                  THEN p.int * 100 + p.decimals[1] * 10
                                  ELSE p.int * 100 + p.decimals[1] * 10
                                       + p.decimals[2]
                     IN  \* within half a hundredth of 100 * pull / eligible
                         /\ 2 * (shown * eligble_for_pr_count
                                 - pull_count * 10000) <= eligble_for_pr_count
                         /\ 2 * (pull_count * 10000
                                 - shown * eligble_for_pr_count) <= eligble_for_pr_count
            /\ out.codeowners.text = "No repositories were processed"
                  <=> total = 0
            /\ total # 0 =>
                  /\ out.codeowners.text = "% of repositories had CODEOWNERS files"
                  /\ LET p == out.codeowners.percent
                         shown == IF Len(p.decimals) = 1
                                  THEN p.int * 100 + p.decimals[1] * 10
                                  ELSE p.int * 100 + p.decimals[1] * 10
                                       + p.decimals[2]
                     IN  /\ 2 * (shown * total - codeowners_count * 10000) <= total
                         /\ 2 * (codeowners_count * 10000 - shown * total) <= total
            /\ (pull_count = 5 /\ eligble_for_pr_count = 10) =>
                  out.eligible.percent = [int |-> 50, decimals |-> <<0>>]
            /\ (codeowners_count = 3 /\ no_codeowners_count = 2) =>
                  out.codeowners.percent = [int |-> 60, decimals |-> <<0>>]

C16_Witness ==
    /\ pc = "printed" /\ printed # <<>>
    /\ stats = <<[pull_count |-> 5, eligble_for_pr_count |-> 10,
                  no_codeowners_count |-> 2, codeowners_count |-> 3,
                  users_count |-> 4]>>
    /\ printed[1].eligible.percent = [int |-> 50, decimals |-> <<0>>]
    /\ printed[1].codeowners.percent = [int |-> 60, decimals |-> <<0>>]

\* for every "@" of s, in order, the bytes that follow it up to the next
\* whitespace byte
RECURSIVE AtTokens(_)
AtTokens(s) ==
    IF s = <<>> THEN <<>>
    ELSE IF Head(s) = AT THEN <<TakeWord(Tail(s))>> \o AtTokens(Tail(s))
         ELSE AtTokens(Tail(s))

\* C17: from a line that is neither a comment nor blank the extractor takes,
\* in order and one for each "@" of the line, the bytes after that "@" up to
\* the next whitespace byte.
C17_HandleIsTextUpToWhitespace ==
    (/\ t_pc = "extracted" /\ ~t_ignore_teams /\ ~t_raised
     /\ ~Contains(t_content, NL) /\ ~OnlyCommentsAndBlanks(t_content)) =>
        t_usernames = AtTokens(t_content)

\* C18: get_usernames_from_codeowners returns a list of handles for every
\* text content and never raises.
C18_ExtractionNeverRaises ==
    t_pc = "extracted" => ~t_raised

\* C19: within one iteration the Change Driver's calls are made at most once
\* each and the sequence is never started again: nothing follows a failed
\* call but the end of the iteration, and after it no Change Driver step is
\* possible for that repository.
C19_ChangeDriverNeverRetried ==
    /\ \A op \in {"ref", "create_ref", "file_contents", "update", "create_pull"} :
          Len(CallsOf(op)) <= 1
    /\ \A i \in 1..(Len(calls) - 1) : calls[i].ok
    /\ \A i \in 1..Len(calls) :
          calls[i].op = "create_ref" => calls[i].args.branch.uuid = Uuid4(repo.id)
    /\ InChangeDriver => AllCallsSucceeded
    /\ pc = "iter_end" =>
          /\ ~ENABLED CommitReadRef /\ ~ENABLED CommitCreateRef
          /\ ~ENABLED CommitUpdateFile /\ ~ENABLED CommitCreatePull
          /\ ~ENABLED AfterLoop
    /\ \A i \in 1..Len(processed) : processed[i].repo.id = i

C19_Witness ==
    /\ pc = "iter_end" /\ Len(calls) = 4
    /\ calls[2].op = "create_ref" /\ calls[2].ok
    /\ calls[4].op = "update" /\ ~calls[4].ok
    /\ Len(processed) = 1 /\ processed[1].outcome = "pr_failed"

\* the probe of the next candidate raises NotFoundError
NextProbeNotFound ==
    /\ l_next \in 1..Len(CandidatePaths)
    /\ l_files[CandidatePaths[l_next]].kind = "notfound"

\* C20: a NotFoundError while probing one candidate is the absence of that
\* candidate only: the result so far is kept, the next candidate is probed,
\* the function goes on to return, the path that raised is not the one
\* returned, and a file of size zero is never returned.
C20_NotFoundIsAbsenceOfOnePath ==
    /\ [][NextProbeNotFound => (l_result' = l_result /\ l_next' = l_next + 1)]_vars
    /\ [](/\ l_next \in 1..Len(CandidatePaths) => ENABLED Probe
          /\ \A i \in 1..Len(CandidatePaths) :
                (i < l_next /\ l_files[CandidatePaths[i]].kind = "notfound") =>
                    l_result.filepath # CandidatePaths[i]
          /\ l_result # NoFile =>
                /\ l_result.contents = l_result.filepath
                /\ l_files[l_result.filepath].kind = "contents"
                /\ l_files[l_result.filepath].size > 0)

C20_Witness ==
    /\ Returned
    /\ l_files[CandidatePaths[1]] = [kind |-> "contents", size |-> 0]
    /\ l_files[CandidatePaths[2]] = [kind |-> "contents", size |-> 1]
    /\ l_files[CandidatePaths[3]] = [kind |-> "notfound", size |-> 0]
    /\ l_result = [contents |-> "CODEOWNERS", filepath |-> "CODEOWNERS"]

\* the repository of the current iteration is skipped at lines 75-82
SkippedRepository == repo # NoRepo /\ (repo.exempt \/ repo.archived)

\* C21: processing a repository that is exempt or archived leaves the five
\* counters and both accumulators as they were, and no file or blob is asked
\* for, no membership is queried and no issue, branch, commit or pull request
\* call is made for it: its iteration ends at once, with nothing left to run
\* but the next turn of the loop.
C21_SkippedRepositoryLeavesNoTrace ==
    /\ [][(pc = "loop" /\ pc' = "iter_end" /\ (repo'.exempt \/ repo'.archived))
            => /\ UNCHANGED <<counters, accumulators, locals>>
               /\ fetches' = <<>> /\ verdicts' = <<>> /\ calls' = <<>>]_vars
    /\ [][SkippedRepository
            => /\ UNCHANGED <<counters, accumulators>>
               /\ fetches' = <<>> /\ verdicts' = <<>> /\ calls' = <<>>
               /\ pc' = "loop"]_vars
    /\ [](SkippedRepository =>
            /\ pc = "iter_end" /\ outcome \in {"exempt", "archived"}
            /\ Counters = before
            /\ fetches = <<>> /\ verdicts = <<>> /\ calls = <<>>
            /\ LocalsCleared
            /\ ~ENABLED CheckMember /\ ~ENABLED AfterLoop
            /\ ~ENABLED CommitReadRef /\ ~ENABLED CommitCreateRef
            /\ ~ENABLED CommitUpdateFile /\ ~ENABLED CommitCreatePull)

C21_Witness ==
    /\ pc = "iter_end" /\ repo.archived /\ ~repo.exempt
    /\ Len(processed) = 1 /\ processed[1].outcome = "pr_created"
    /\ pull_count = 1 /\ users_count > 0 /\ codeowners_count = 1
    /\ DOMAIN repo_and_users_to_remove = {1}

\* the file of the current iteration was large: its blob was fetched
LargeFile == \E i \in 1..Len(fetches) : fetches[i].op = "blob"

\* C22: once the content of a large file has been fetched by its hash the
\* repository is treated like any other: main() is not left by an exception,
\* the handles of the fetched content are the ones checked, and with dry-run
\* off a stale user makes the file changed with a rewritten content for
\* commit_changes.
C22_LargeFileTreatedLikeAnyOther ==
    LargeFile =>
        /\ fetches = Probes \o BlobFetches(codeowners_filepath)
        /\ pc # "crashed"
        /\ \E content \in BlobContents :
              usernames = ExtractedFrom[content].usernames
        /\ (~dry_run /\ usernames_to_remove # <<>>) =>
              /\ file_changed
              /\ codeowners_file_contents_new # NoBytes
        /\ pc = "iter_end" =>
              outcome \in IF ~dry_run /\ usernames_to_remove # <<>>
                          THEN {"pr_created", "pr_failed"}
                          ELSE {"not_changed"}

\* the handle occurrences recorded as stale so far: the lists recorded for the
\* repositories whose iteration ended, and the list of the current iteration
StaleRecorded == RecordedUpTo(Len(processed)) + Len(usernames_to_remove)

\* C23: no counter ever decreases; in every state
\* pull_count <= eligble_for_pr_count <= codeowners_count, and users_count is
\* the number of handle occurrences recorded as stale so far, a handle that
\* occurs twice counted twice.
C23_CountersMonotoneAndOrdered ==
    /\ [][/\ pull_count' >= pull_count
          /\ eligble_for_pr_count' >= eligble_for_pr_count
          /\ no_codeowners_count' >= no_codeowners_count
          /\ codeowners_count' >= codeowners_count
          /\ users_count' >= users_count]_vars
    /\ [](/\ pull_count <= eligble_for_pr_count
          /\ eligble_for_pr_count <= codeowners_count
          /\ users_count = StaleRecorded)

C23_Witness ==
    /\ pc = "done" /\ ~dry_run
    /\ pull_count = 1 /\ eligble_for_pr_count = 2 /\ codeowners_count = 2
    /\ users_count = 3
    /\ DOMAIN repo_and_users_to_remove = {1, 2}
    /\ repo_and_users_to_remove[1] = <<<<"a">>, <<"a">>>>
    /\ processed[1].outcome = "pr_failed"

====
